---- MODULE Spec2Model ----
(***************************************************************************)
(* Model of the mutation-testing autograder's grading core.                *)
(*                                                                         *)
(* The repository holds two copies of the program: src/src/main.ts and     *)
(* src/unnamed/part_001.  They differ in gradeMutationUnit (main.ts        *)
(* reverses config.breakPoints in place, part_001 reverses a copy) and in  *)
(* run().  The variable impl says which copy is executing.                 *)
(*                                                                         *)
(* Representation of JavaScript values:                                    *)
(*  - strings that the code splits, searches or parses (location strings   *)
(*    and report file paths) are sequences of one-character strings;       *)
(*  - strings the code only copies or builds by template (unit names,      *)
(*    the output summary) are TLA+ strings;                                *)
(*  - numbers are integers, NaN and -Infinity are the sentinels below      *)
(*    (every number the inputs can denote is >= 0).                        *)
(***************************************************************************)
EXTENDS Integers, Sequences, FiniteSets, TLC

\* ------------------------------------------------------------------ bounds
MaxBreakPoints == 2
MaxLocations == 2
MaxMutants == 2
MaxUnits == 2
MaxCalls == 2
MaxFiles == 2
MaxAnnotations == 2

\* ------------------------------------------------------- JavaScript values
NaN == -1
NegInfinity == -2

Digits == {"0", "1", "2", "3", "4", "5", "6", "7", "8", "9"}

DigitValue(c) ==
  CASE c = "0" -> 0 [] c = "1" -> 1 [] c = "2" -> 2 [] c = "3" -> 3
    [] c = "4" -> 4 [] c = "5" -> 5 [] c = "6" -> 6 [] c = "7" -> 7
    [] c = "8" -> 8 [] c = "9" -> 9

\* String.prototype.split(sep) for a one-character separator: the pieces
\* between the separators, in order (always at least one piece).
RECURSIVE SplitFrom(_, _, _)
SplitFrom(s, sep, cur) ==
  IF s = <<>> THEN <<cur>>
  ELSE IF Head(s) = sep THEN <<cur>> \o SplitFrom(Tail(s), sep, <<>>)
  ELSE SplitFrom(Tail(s), sep, Append(cur, Head(s)))

split(s, sep) == SplitFrom(s, sep, <<>>)

\* String.prototype.includes(sub): sub occurs in s as a contiguous substring.
includes(s, sub) ==
  \E i \in 0..(Len(s) - Len(sub)) : SubSeq(s, i + 1, i + Len(sub)) = sub

\* parseInt(s), radix 10, for strings over the model's alphabet (no sign, no
\* white space): the value of the longest prefix of digits, NaN when empty.
RECURSIVE ParseDigits(_, _, _)
ParseDigits(s, acc, seen) ==
  IF s = <<>> \/ Head(s) \notin Digits
    THEN (IF seen THEN acc ELSE NaN)
    ELSE ParseDigits(Tail(s), acc * 10 + DigitValue(Head(s)), TRUE)

parseInt(s) == ParseDigits(s, 0, FALSE)

\* a <= b on JavaScript numbers: false when either side is NaN.
NumLeq(a, b) == a # NaN /\ b # NaN /\ a <= b

\* ------------------------------------------------------ Location Parser
\* Mutant of extractLocationInformation: a range's end line is dropped,
\* endLine is startLine.
extractLocationSingleLine(location) ==
  LET parts == split(location, ":") IN
  IF Len(parts) # 2 THEN [threw |-> TRUE]
  ELSE LET lineParts == split(parts[2], "-") IN
       [threw |-> FALSE, fileName |-> parts[1],
        startLine |-> parseInt(lineParts[1]),
        endLine |-> parseInt(lineParts[1])]

\* Mutant of extractLocationInformation: what follows a second ':' is
\* ignored instead of rejected.
extractLocationIgnoringColumn(location) ==
  LET parts == split(location, ":") IN
  IF Len(parts) < 2 THEN [threw |-> TRUE]
  ELSE LET lineParts == split(parts[2], "-") IN
       [threw |-> FALSE, fileName |-> parts[1],
        startLine |-> parseInt(lineParts[1]),
        endLine |-> parseInt(lineParts[Len(lineParts)])]

\* extractLocationInformation(location).  threw is TRUE when the call throws:
\* the explicit Error for more than one ':', or the TypeError of
\* parts[1].includes on undefined when there is no ':'.
Thrown == [threw |-> TRUE]

extractLocationInformation(location) ==
  LET parts == split(location, ":") IN
  IF Len(parts) > 2 THEN Thrown
  ELSE IF Len(parts) < 2 THEN Thrown
  ELSE
    LET fileName == parts[1] IN
    IF includes(parts[2], <<"-">>)
      THEN LET lineParts == split(parts[2], "-") IN
           [threw |-> FALSE, fileName |-> fileName,
            startLine |-> parseInt(lineParts[1]),
            endLine |-> parseInt(lineParts[2])]
      ELSE [threw |-> FALSE, fileName |-> fileName,
            startLine |-> parseInt(parts[2]),
            endLine |-> parseInt(parts[2])]

\* ------------------------------------------------------------ Unit Grader
\* Array.prototype.reverse: the elements in the opposite order.
reverse(a) == [i \in 1..Len(a) |-> a[Len(a) + 1 - i]]

\* Mutant of MathMax: takes the last argument for the largest.
MathMaxLast(a) == IF a = <<>> THEN NegInfinity ELSE a[Len(a)]

\* Math.max(...a): -Infinity for no arguments.
RECURSIVE MathMax(_)
MathMax(a) ==
  IF a = <<>> THEN NegInfinity
  ELSE LET rest == MathMax(Tail(a)) IN
       IF Head(a) > rest THEN Head(a) ELSE rest

\* config.breakPoints.map(bp => bp.pointsToAward)
RECURSIVE MapPoints(_)
MapPoints(bps) ==
  IF bps = <<>> THEN <<>>
  ELSE <<Head(bps).pointsToAward>> \o MapPoints(Tail(bps))

\* config.locations.map(extractLocationInformation)
RECURSIVE MapLocations(_)
MapLocations(locations) ==
  IF locations = <<>> THEN <<>>
  ELSE <<extractLocationInformation(Head(locations))>>
         \o MapLocations(Tail(locations))

\* gradedLocations.find(l => fileName.includes(l.fileName)) !== undefined
mutatedFileContainsAGradedUnit(gradedLocations, fileName) ==
  \E i \in 1..Len(gradedLocations) :
    includes(fileName, gradedLocations[i].fileName)

\* Mutant of mutantContainsThisGradedUnit: endLine is exclusive.
mutantContainsEndExclusive(gradedLocations, mutant) ==
  \E i \in 1..Len(gradedLocations) :
    /\ NumLeq(gradedLocations[i].startLine, mutant.line)
    /\ NumLeq(mutant.line + 1, gradedLocations[i].endLine)

\* gradedLocations.find(l => l.startLine <= line && l.endLine >= line)
\*   !== undefined
mutantContainsThisGradedUnit(gradedLocations, mutant) ==
  \E i \in 1..Len(gradedLocations) :
    /\ NumLeq(gradedLocations[i].startLine, mutant.line)
    /\ NumLeq(mutant.line, gradedLocations[i].endLine)

\* Mutant of MutantsFoundThisFile: every status but 'Survived' is detected.
RECURSIVE MutantsNotSurvivedThisFile(_, _)
MutantsNotSurvivedThisFile(gradedLocations, mutants) ==
  IF mutants = <<>> THEN 0
  ELSE (IF /\ mutantContainsThisGradedUnit(gradedLocations, Head(mutants))
           /\ Head(mutants).status # "Survived"
          THEN 1 ELSE 0)
       + MutantsNotSurvivedThisFile(gradedLocations, Tail(mutants))

\* The inner reduce: the mutants of one file that are in a graded range and
\* whose status is 'Killed'.
RECURSIVE MutantsFoundThisFile(_, _)
MutantsFoundThisFile(gradedLocations, mutants) ==
  IF mutants = <<>> THEN 0
  ELSE (IF /\ mutantContainsThisGradedUnit(gradedLocations, Head(mutants))
           /\ Head(mutants).status = "Killed"
          THEN 1 ELSE 0)
       + MutantsFoundThisFile(gradedLocations, Tail(mutants))

\* The outer filter and reduce over Object.keys(mutationResults.files).
RECURSIVE MutantsDetected(_, _)
MutantsDetected(gradedLocations, files) ==
  IF files = <<>> THEN 0
  ELSE (IF mutatedFileContainsAGradedUnit(gradedLocations, Head(files).path)
          THEN MutantsFoundThisFile(gradedLocations, Head(files).mutants)
          ELSE 0)
       + MutantsDetected(gradedLocations, Tail(files))

\* Mutant of FindBreakPoint: the threshold must be strictly below d.
FindBreakPointStrict(a, d) ==
  LET hits == {i \in 1..Len(a) : a[i].minimumMutantsDetected < d} IN
  IF hits = {} THEN <<>>
  ELSE <<a[CHOOSE i \in hits : \A j \in hits : i <= j]>>

\* Mutant of FindBreakPoint: the comparison is the wrong way round.
FindBreakPointFlipped(a, d) ==
  LET hits == {i \in 1..Len(a) : a[i].minimumMutantsDetected >= d} IN
  IF hits = {} THEN <<>>
  ELSE <<a[CHOOSE i \in hits : \A j \in hits : i <= j]>>

\* a.find(bp => bp.minimumMutantsDetected <= d): the first such element, as a
\* one-element sequence, or <<>> for undefined.
FindBreakPoint(a, d) ==
  LET hits == {i \in 1..Len(a) : a[i].minimumMutantsDetected <= d} IN
  IF hits = {} THEN <<>>
  ELSE <<a[CHOOSE i \in hits : \A j \in hits : i <= j]>>

\* `Faults detected: ${mutantsDetected}/${maxMutantsToFind}`
FaultsDetected(mutantsDetected, maxMutantsToFind) ==
  "Faults detected: " \o ToString(mutantsDetected) \o "/"
    \o ToString(maxMutantsToFind)

\* gradeMutationUnit(config, mutationResults) of the copy `version`.
\* The result records whether the call threw, the TestResult ret, the locals
\* gradedLocations and mutantsDetected, and config as the call leaves the
\* caller's object.
\*   main.ts:   config.breakPoints.reverse().find(...)   reverses in place
\*   part_001:  config.breakPoints.concat([]).reverse()  reverses a copy
gradeMutationUnit(version, config, mutationResults) ==
  LET max_score == MathMax(MapPoints(config.breakPoints))
      gradedLocations == MapLocations(config.locations)
  IN
  IF \E i \in 1..Len(gradedLocations) : gradedLocations[i].threw
    THEN [threw |-> TRUE, config |-> config]
  ELSE
    LET mutantsDetected == MutantsDetected(gradedLocations, mutationResults)
        breakPointsReversed == reverse(config.breakPoints)
        after == IF version = "main.ts"
                   THEN [config EXCEPT !.breakPoints = breakPointsReversed]
                   ELSE config
        breakPointHit == FindBreakPoint(breakPointsReversed, mutantsDetected)
        score == IF breakPointHit # <<>>
                   THEN breakPointHit[1].pointsToAward ELSE 0
    IN
    IF after.breakPoints = <<>>
      THEN [threw |-> TRUE, config |-> after]
    ELSE
      LET maxMutantsToFind ==
            after.breakPoints[Len(after.breakPoints)].minimumMutantsDetected
      IN [threw |-> FALSE, config |-> after,
          gradedLocations |-> gradedLocations,
          mutantsDetected |-> mutantsDetected,
          ret |-> [score |-> score, max_score |-> max_score,
                   name |-> config.name,
                   output |-> FaultsDetected(mutantsDetected,
                                             maxMutantsToFind)]]

\* Mutant of BreakPointsThrow: equal thresholds pass.
RECURSIVE BreakPointsThrowOnDecrease(_, _, _)
BreakPointsThrowOnDecrease(breakPoints, i, lastBP) ==
  IF i > Len(breakPoints) THEN FALSE
  ELSE IF breakPoints[i].minimumMutantsDetected < lastBP THEN TRUE
  ELSE BreakPointsThrowOnDecrease(breakPoints, i + 1,
                                  breakPoints[i].minimumMutantsDetected)

\* ------------------------------------------------------- Config Validator
\* The inner loop of validateConfig over one unit's breakPoints, from index i
\* with the running lastBP: TRUE when the loop throws.
RECURSIVE BreakPointsThrow(_, _, _)
BreakPointsThrow(breakPoints, i, lastBP) ==
  IF i > Len(breakPoints) THEN FALSE
  ELSE IF breakPoints[i].minimumMutantsDetected <= lastBP THEN TRUE
  ELSE BreakPointsThrow(breakPoints, i + 1,
                        breakPoints[i].minimumMutantsDetected)

\* validateConfig(config): <<>> when it returns, <<name>> when it throws, name
\* being the gradedUnit the error message names (the first offending one).
RECURSIVE validateConfig(_)
validateConfig(gradedUnits) ==
  IF gradedUnits = <<>> THEN <<>>
  ELSE IF BreakPointsThrow(Head(gradedUnits).breakPoints, 1, -1)
    THEN <<Head(gradedUnits).name>>
  ELSE validateConfig(Tail(gradedUnits))

\* ------------------------------------------------------ Report Aggregator
\* Mutant of MapGradedUnits: each result is put in front of the earlier ones.
RECURSIVE MapGradedUnitsPrepend(_, _, _, _, _)
MapGradedUnitsPrepend(version, gradedUnits, results, i, calls) ==
  IF i > Len(gradedUnits)
    THEN [threw |-> FALSE, gradedUnits |-> gradedUnits, calls |-> calls]
  ELSE
    LET r == gradeMutationUnit(version, gradedUnits[i], results)
        units2 == [gradedUnits EXCEPT ![i] = r.config]
        calls2 == <<[unit |-> gradedUnits[i], result |-> r]>> \o calls
    IN IF r.threw
         THEN [threw |-> TRUE, gradedUnits |-> units2, calls |-> calls2]
         ELSE MapGradedUnitsPrepend(version, units2, results, i + 1, calls2)

\* Mutant of MapGradedUnits: a report file that a unit has claimed is not
\* shown to the units after it.
RECURSIVE MapGradedUnitsExclusive(_, _, _, _, _)
MapGradedUnitsExclusive(version, gradedUnits, results, i, calls) ==
  IF i > Len(gradedUnits)
    THEN [threw |-> FALSE, gradedUnits |-> gradedUnits, calls |-> calls]
  ELSE
    LET r == gradeMutationUnit(version, gradedUnits[i], results)
        units2 == [gradedUnits EXCEPT ![i] = r.config]
        calls2 == Append(calls, [unit |-> gradedUnits[i], result |-> r])
        Unclaimed(file) ==
          ~mutatedFileContainsAGradedUnit(r.gradedLocations, file.path)
    IN IF r.threw
         THEN [threw |-> TRUE, gradedUnits |-> units2, calls |-> calls2]
         ELSE MapGradedUnitsExclusive(version, units2,
                                      SelectSeq(results, Unclaimed),
                                      i + 1, calls2)

\* schema.gradedUnits.map(gradedUnit => gradeMutationUnit(gradedUnit, results))
\* from unit i on.  calls collects, per unit reached, the unit as it was when
\* its call began together with the call's result; gradedUnits is the
\* caller's array as the calls leave it.  The map stops at the first throw.
RECURSIVE MapGradedUnits(_, _, _, _, _)
MapGradedUnits(version, gradedUnits, results, i, calls) ==
  IF i > Len(gradedUnits)
    THEN [threw |-> FALSE, gradedUnits |-> gradedUnits, calls |-> calls]
  ELSE
    LET r == gradeMutationUnit(version, gradedUnits[i], results)
        units2 == [gradedUnits EXCEPT ![i] = r.config]
        calls2 == Append(calls, [unit |-> gradedUnits[i], result |-> r])
    IN IF r.threw
         THEN [threw |-> TRUE, gradedUnits |-> units2, calls |-> calls2]
         ELSE MapGradedUnits(version, units2, results, i + 1, calls2)

\* The tests list of the GraderOutput that gradeStrykerResults returns.
RECURSIVE TestResults(_)
TestResults(calls) ==
  IF calls = <<>> THEN <<>>
  ELSE <<Head(calls).result.ret>> \o TestResults(Tail(calls))

\* ------------------------------------------------------------------ inputs
FooTs == <<"f", "o", "o", ".", "t", "s">>
BarTs == <<"b", "a", "r", ".", "t", "s">>
SrcFooTs == <<"s", "r", "c", "/">> \o FooTs

Loc_1_5 == FooTs \o <<":", "1", "-", "5">>
Loc_10_20 == FooTs \o <<":", "1", "0", "-", "2", "0">>
Loc_10_19 == FooTs \o <<":", "1", "0", "-", "1", "9">>
LocBar_20 == BarTs \o <<":", "2", "0">>
LocColumn == FooTs \o <<":", "1", ":", "2">>
LocNoLine == FooTs

LocationStrings == <<Loc_1_5, Loc_10_20, Loc_10_19, LocBar_20>>
Statuses == {"Killed", "Survived", "NoCoverage", "Timeout"}
ThresholdValues == {0, 1, 2}
PointValues == {0, 5, 10}
Versions == {"main.ts", "part_001"}

SeqsUpTo(S, n) == UNION {[1..k -> S] : k \in 0..n}

BP(m, p) == [minimumMutantsDetected |-> m, pointsToAward |-> p]
Mutant(s, l) == [status |-> s, line |-> l]
Unit(n, bps, locs) == [name |-> n, breakPoints |-> bps, locations |-> locs]

\* A report's files, in key order, from a flat list of (path, mutant) pairs:
\* one file per path that occurs, with that path's mutants in list order.
RECURSIVE FilesOf(_, _)
FilesOf(flat, seen) ==
  IF flat = <<>> THEN <<>>
  ELSE IF Head(flat).path \in seen THEN FilesOf(Tail(flat), seen)
  ELSE LET p == Head(flat).path
           IsP(e) == e.path = p
           mine == SelectSeq(flat, IsP)
       IN <<[path |-> p,
             mutants |-> [k \in 1..Len(mine) |-> mine[k].mutant]]>>
          \o FilesOf(Tail(flat), seen \cup {p})

\* The (path, mutant) pairs the generated reports are made of.
ReportMutants ==
  [path : {SrcFooTs}, mutant : [status : {"Killed", "Survived"}, line : {5, 20}]]
    \cup [path : {BarTs}, mutant : [status : {"Killed", "Survived"}, line : {20}]]

Reports == {FilesOf(flat, {}) : flat \in SeqsUpTo(ReportMutants, MaxMutants)}

\* Reports of one file "src/foo.ts" with k killed mutants at line 5 and one
\* survived mutant at line 5.
KilledReport(k) ==
  <<[path |-> SrcFooTs,
     mutants |-> [j \in 1..(k + 1) |->
                    IF j <= k THEN Mutant("Killed", 5)
                              ELSE Mutant("Survived", 5)]]>>

\* Inputs that vary the breakpoint table of one unit.
BreakPointInputs ==
  {[gradedUnits |-> <<Unit("U", bps, <<Loc_1_5>>)>>, files |-> KilledReport(k)] :
     bps \in SeqsUpTo([minimumMutantsDetected : ThresholdValues,
                       pointsToAward : PointValues], MaxBreakPoints),
     k \in 0..(MaxBreakPoints + 1)}

\* The location lists of at most MaxLocations distinct strings, each in the
\* order of LocationStrings.
LocationLists ==
  {LET Chosen(l) == l \in chosen IN SelectSeq(LocationStrings, Chosen) :
     chosen \in {c \in SUBSET {LocationStrings[k] : k \in 1..Len(LocationStrings)} :
                   Cardinality(c) <= MaxLocations}}

\* Inputs that vary the locations of one unit and the report.
ClassifierInputs ==
  {[gradedUnits |-> <<Unit("U", <<BP(1, 5), BP(2, 10)>>, locs)>>, files |-> r] :
     locs \in LocationLists, r \in Reports}

\* The end-to-end scenario: unit U with breakpoints {0,0},{3,5},{6,10} and
\* location "foo.ts:1-5"; file "src/foo.ts" with six mutants at lines 1-5,
\* four Killed and two Survived.
ScenarioUnit ==
  Unit("U", <<BP(0, 0), BP(3, 5), BP(6, 10)>>, <<Loc_1_5>>)
ScenarioReport ==
  <<[path |-> SrcFooTs,
     mutants |-> <<Mutant("Killed", 1), Mutant("Killed", 2),
                   Mutant("Survived", 3), Mutant("Killed", 4),
                   Mutant("Killed", 5), Mutant("Survived", 5)>>]>>
ScenarioInputs == {[gradedUnits |-> <<ScenarioUnit>>, files |-> ScenarioReport]}

\* Inputs with several units.
SomeUnits ==
  {Unit("U", <<BP(0, 0), BP(1, 5), BP(2, 10)>>, <<Loc_1_5>>),
   Unit("V", <<BP(0, 10), BP(5, 5)>>, <<LocBar_20, Loc_10_20>>),
   Unit("W", <<>>, <<Loc_1_5>>),
   Unit("X", <<BP(0, 0), BP(1, 5)>>, <<LocColumn>>),
   Unit("Y", <<BP(1, 5), BP(1, 10)>>, <<Loc_1_5>>),
   Unit("Z", <<BP(1, 5)>>, <<Loc_1_5, LocNoLine>>),
   Unit("T", <<BP(1, 10)>>, <<Loc_1_5, Loc_10_19>>)}
SomeReports ==
  {<<>>,
   <<[path |-> SrcFooTs, mutants |-> <<>>]>>,
   <<[path |-> SrcFooTs,
      mutants |-> <<Mutant("Killed", 5), Mutant("Timeout", 5),
                    Mutant("Killed", 20)>>],
     [path |-> BarTs,
      mutants |-> <<Mutant("NoCoverage", 20), Mutant("Killed", 20)>>]>>}
UnitLists ==
  {us \in SeqsUpTo(SomeUnits, MaxUnits) :
     \A i, j \in 1..Len(us) : us[i].name = us[j].name => i = j}
AggregateInputs ==
  {[gradedUnits |-> us, files |-> r] : us \in UnitLists, r \in SomeReports}

Inputs ==
  BreakPointInputs \cup ClassifierInputs \cup ScenarioInputs
    \cup AggregateInputs

\* ------------------------------------------------------------------- state
VARIABLES
  impl,         \* which copy of the program runs: "main.ts" or "part_001"
  yaml,         \* gradedUnits as YAML.parse returned them (never changes)
  gradedUnits,  \* schema.gradedUnits, the object the functions are handed
  results,      \* mutationResults.files: <<[path, mutants]>> in key order
  pc,           \* "loaded", "validated", "rejected", "graded", "threw"
  configError,  \* what validateConfig did: <<>> or <<unit name>>
  calls,        \* the gradeMutationUnit calls of the last gradeStrykerResults
  previous,     \* the tests of the gradeStrykerResults before the last, or <<>>
  invocations,  \* number of gradeStrykerResults calls so far
  \* state of run()
  tolerances,   \* schema.expectedESlintIgnore and schema.expectedTSIgnore
  outputFile,   \* process.argv.length > 3: an output file was named
  fileResults,  \* per submission file: "pending", or whether io.cp succeeded
  occurrences,  \* what the two greps found, once they ran
  res,          \* the GraderOutput about to be emitted: <<>> or <<res>>
  emitted,      \* the values core.setOutput('test-results', ...) was given
  failed,       \* core.setFailed was called
  trace         \* the steps run() has taken, each with whether it succeeded

runVars ==
  <<tolerances, outputFile, fileResults, occurrences, res, emitted, failed,
    trace>>

vars ==
  <<impl, yaml, gradedUnits, results, pc, configError, calls, previous,
    invocations, tolerances, outputFile, fileResults, occurrences, res,
    emitted, failed, trace>>

\* The values of the variables of run() while run() is not executing.
RunIdle ==
  /\ tolerances = [expectedESlintIgnore |-> 0, expectedTSIgnore |-> 0]
  /\ outputFile = FALSE
  /\ fileResults = <<>>
  /\ occurrences = [eslintDisable |-> <<>>, tsIgnore |-> <<>>]
  /\ res = <<>>
  /\ emitted = <<>>
  /\ failed = FALSE
  /\ trace = <<>>

Init ==
  /\ impl \in Versions
  /\ \E in \in Inputs :
       /\ yaml = in.gradedUnits
       /\ gradedUnits = in.gradedUnits
       /\ results = in.files
  /\ pc = "loaded"
  /\ configError = <<>>
  /\ calls = <<>>
  /\ previous = <<>>
  /\ invocations = 0
  /\ RunIdle

\* run(): validateConfig(schema); a throw ends run() (core.setFailed).
ValidateConfig ==
  /\ pc = "loaded"
  /\ configError' = validateConfig(gradedUnits)
  /\ pc' = IF configError' = <<>> THEN "validated" ELSE "rejected"
  /\ UNCHANGED <<impl, yaml, gradedUnits, results, calls, previous,
                 invocations>>
  /\ UNCHANGED runVars

\* gradeStrykerResults(schema, results), the first time after validateConfig
\* and again on the same schema and report.
GradeStrykerResults ==
  /\ pc \in {"validated", "graded"}
  /\ invocations < MaxCalls
  /\ LET m == MapGradedUnits(impl, gradedUnits, results, 1, <<>>) IN
       /\ gradedUnits' = m.gradedUnits
       /\ calls' = m.calls
       /\ pc' = IF m.threw THEN "threw" ELSE "graded"
  /\ previous' = IF pc = "graded" THEN <<TestResults(calls)>> ELSE <<>>
  /\ invocations' = invocations + 1
  /\ UNCHANGED <<impl, yaml, results, configError>>
  /\ UNCHANGED runVars

Next == ValidateConfig \/ GradeStrykerResults

Spec == Init /\ [][Next]_vars

\* The tests list returned by the last gradeStrykerResults (pc = "graded").
tests == TestResults(calls)

\* ------------------------------------------------------------------- run()
\* String.prototype.trim: white space removed from both ends.
WhiteSpace == {" ", "\n", "\t"}

RECURSIVE trimStart(_)
trimStart(s) ==
  IF s # <<>> /\ Head(s) \in WhiteSpace THEN trimStart(Tail(s)) ELSE s

RECURSIVE trimEnd(_)
trimEnd(s) ==
  IF s # <<>> /\ s[Len(s)] \in WhiteSpace
    THEN trimEnd(SubSeq(s, 1, Len(s) - 1)) ELSE s

trim(s) == trimEnd(trimStart(s))

\* What `grep -ro <word> src` prints for n occurrences: one line per
\* occurrence, each ended by a newline (the line's text is abridged to "m").
\* Nothing is written to stderr.
RECURSIVE GrepOutput(_)
GrepOutput(n) == IF n = 0 THEN <<>> ELSE <<"m", "\n">> \o GrepOutput(n - 1)

\* The eslint-disable check of part_001: the lines of the trimmed output are
\* counted, and more lines than expectedESlintIgnore throw.
EsLintDisableCheckThrows(output, expectedESlintIgnore) ==
  LET esLintDisables == Len(split(trim(output), "\n")) IN
  esLintDisables > expectedESlintIgnore

\* The ts-ignore check of part_001: as above, except that a single empty line
\* (no occurrence) never throws.
TsIgnoreCheckThrows(output, expectedTSIgnore) ==
  LET tsIgnores == split(trim(output), "\n") IN
  /\ Len(tsIgnores) > expectedTSIgnore
  /\ ~(Len(tsIgnores) = 1 /\ tsIgnores[1] = <<>>)

\* The GraderOutput of a successful grading; output is generalOutput, which
\* then ends with "Tests successfully ran".
GradedOutput(testResults) ==
  [stdout_visibility |-> "hidden", tests |-> testResults,
   output |-> "Tests successfully ran"]

\* The GraderOutput of the inner catch (stryker or grading threw).
InternalErrorOutput ==
  [stdout_visibility |-> "visible", score |-> 0,
   output |-> "An internal error occurred, and no test results were generated."]

\* The GraderOutput of the outer catch (a step of the pipeline threw).
ErrorOccurredOutput ==
  [stdout_visibility |-> "visible", score |-> 0,
   output |-> "^^^^ERROR OCURRED. This submission will not be graded"]

\* Mutant of AfterValidateConfig: the error of validateConfig is swallowed.
AfterValidateConfigProceeds(error) == "copy"

\* Where run() goes after validateConfig(schema): on to the copies, or, when
\* it threw, to the last catch, which only calls core.setFailed.
AfterValidateConfig(error) == IF error = <<>> THEN "copy" ELSE "setFailed"

\* The first step inside the try block that follows the copies.
FirstStepOfTry(version) ==
  IF version = "part_001" THEN "anyFilesFound" ELSE "npm install"

Step(name, ok) == [step |-> name, ok |-> ok]

\* The configs run() is given.
RunUnitLists ==
  {<<Unit("U", <<BP(0, 0), BP(1, 5), BP(2, 10)>>, <<Loc_1_5>>),
     Unit("V", <<BP(0, 10), BP(5, 5)>>, <<LocBar_20, Loc_10_20>>)>>,
   <<Unit("Y", <<BP(1, 5), BP(1, 10)>>, <<Loc_1_5>>)>>,
   <<Unit("U", <<BP(0, 0), BP(1, 5), BP(2, 10)>>, <<Loc_1_5>>),
     Unit("W", <<>>, <<Loc_1_5>>)>>}

InitRun ==
  /\ impl \in Versions
  /\ yaml \in RunUnitLists
  /\ gradedUnits = yaml
  /\ results = <<>>
  /\ pc = "run"
  /\ configError = <<>>
  /\ calls = <<>>
  /\ previous = <<>>
  /\ invocations = 0
  /\ tolerances \in [expectedESlintIgnore : 0..MaxAnnotations,
                     expectedTSIgnore : 0..MaxAnnotations]
  /\ outputFile \in BOOLEAN
  /\ fileResults \in {[i \in 1..n |-> "pending"] : n \in 0..MaxFiles}
  /\ occurrences = [eslintDisable |-> <<>>, tsIgnore |-> <<>>]
  /\ res = <<>>
  /\ emitted = <<>>
  /\ failed = FALSE
  /\ trace = <<>>

coreVars == <<impl, yaml, previous, invocations, tolerances, outputFile>>

\* run() up to YAML.parse: the submission directory is found (part_001 throws
\* without one) and grading.yml is read and parsed, or one of them throws and
\* the last catch calls core.setFailed.
LoadConfig ==
  /\ pc = "run"
  /\ \E ok \in BOOLEAN :
       /\ pc' = IF ok THEN "validateConfig" ELSE "done"
       /\ failed' = ~ok
  /\ UNCHANGED <<coreVars, gradedUnits, results, configError, calls,
                 fileResults, occurrences, res, emitted, trace>>

\* validateConfig(schema)
RunValidateConfig ==
  /\ pc = "validateConfig"
  /\ configError' = validateConfig(gradedUnits)
  /\ trace' = Append(trace, Step("validateConfig", configError' = <<>>))
  /\ pc' = IF AfterValidateConfig(configError') = "setFailed"
             THEN "done" ELSE AfterValidateConfig(configError')
  /\ failed' = (AfterValidateConfig(configError') = "setFailed")
  /\ UNCHANGED <<coreVars, gradedUnits, results, calls, fileResults,
                 occurrences, res, emitted>>

\* One io.cp of the Promise.all settles: the file is copied, or the copy
\* throws and a warning is added to generalOutput.
CopySubmissionFile ==
  /\ pc = "copy"
  /\ \E i \in 1..Len(fileResults) :
       /\ fileResults[i] = "pending"
       /\ \E ok \in BOOLEAN :
            /\ fileResults' =
                 [fileResults EXCEPT ![i] = IF ok THEN "true" ELSE "false"]
            /\ trace' = Append(trace, Step("cp", ok))
  /\ UNCHANGED <<coreVars, gradedUnits, results, pc, configError, calls,
                 occurrences, res, emitted, failed>>

\* await Promise.all(...) returns once every copy has settled.
AwaitCopies ==
  /\ pc = "copy"
  /\ \A i \in 1..Len(fileResults) : fileResults[i] # "pending"
  /\ pc' = FirstStepOfTry(impl)
  /\ UNCHANGED <<coreVars, gradedUnits, results, configError, calls,
                 fileResults, occurrences, res, emitted, failed, trace>>

\* part_001: fileResults.find(v => v === true), throw when there is none.
CheckFilesFound ==
  /\ pc = "anyFilesFound"
  /\ LET anyFilesFound ==
           \E i \in 1..Len(fileResults) : fileResults[i] = "true"
     IN /\ trace' = Append(trace, Step("anyFilesFound", anyFilesFound))
        /\ pc' = IF anyFilesFound THEN "grep eslint-disable" ELSE "catch"
  /\ UNCHANGED <<coreVars, gradedUnits, results, configError, calls,
                 fileResults, occurrences, res, emitted, failed>>

\* part_001: grep -ro eslint-disable src (exit code ignored) and the check
\* of the number of lines against schema.expectedESlintIgnore.
GrepEslintDisable ==
  /\ pc = "grep eslint-disable"
  /\ \E n \in 0..MaxAnnotations :
       LET throws == EsLintDisableCheckThrows(GrepOutput(n),
                                              tolerances.expectedESlintIgnore)
       IN /\ occurrences' = [occurrences EXCEPT !.eslintDisable = <<n>>]
          /\ trace' = Append(trace, Step("grep eslint-disable", ~throws))
          /\ pc' = IF throws THEN "catch" ELSE "grep ts-ignore"
  /\ UNCHANGED <<coreVars, gradedUnits, results, configError, calls,
                 fileResults, res, emitted, failed>>

\* part_001: grep -ro ts-ignore src and its check.
GrepTsIgnore ==
  /\ pc = "grep ts-ignore"
  /\ \E n \in 0..MaxAnnotations :
       LET throws == TsIgnoreCheckThrows(GrepOutput(n),
                                         tolerances.expectedTSIgnore)
       IN /\ occurrences' = [occurrences EXCEPT !.tsIgnore = <<n>>]
          /\ trace' = Append(trace, Step("grep ts-ignore", ~throws))
          /\ pc' = IF throws THEN "catch" ELSE "npm install"
  /\ UNCHANGED <<coreVars, gradedUnits, results, configError, calls,
                 fileResults, res, emitted, failed>>

\* executeCommandAndGetOutput(command) (main.ts:
\* executeCommandOrFailWithOutput): the command succeeds and run() goes on to
\* next, or exec rejects and the Error is thrown to the catch of the try.
ExecuteCommand(command, next) ==
  /\ pc = command
  /\ \E ok \in BOOLEAN :
       /\ trace' = Append(trace, Step(command, ok))
       /\ pc' = IF ok THEN next ELSE "catch"
  /\ UNCHANGED <<coreVars, gradedUnits, results, configError, calls,
                 fileResults, occurrences, res, emitted, failed>>

NpmInstall == ExecuteCommand("npm install", "eslint")
RunESLint == ExecuteCommand("eslint", "npm test")
NpmTest == ExecuteCommand("npm test", "stryker")

\* runStryker(): stryker runs and its report is read, or it throws and the
\* inner catch makes the internal-error result.
RunStryker ==
  /\ pc = "stryker"
  /\ \/ /\ results' \in SomeReports
        /\ trace' = Append(trace, Step("stryker", TRUE))
        /\ pc' = "gradeStrykerResults"
        /\ res' = res
     \/ /\ results' = results
        /\ trace' = Append(trace, Step("stryker", FALSE))
        /\ pc' = "outputGrading"
        /\ res' = <<InternalErrorOutput>>
  /\ UNCHANGED <<coreVars, gradedUnits, configError, calls, fileResults,
                 occurrences, emitted, failed>>

\* res = await gradeStrykerResults(schema, report); a throw goes to the inner
\* catch.
RunGradeStrykerResults ==
  /\ pc = "gradeStrykerResults"
  /\ LET m == MapGradedUnits(impl, gradedUnits, results, 1, <<>>) IN
       /\ gradedUnits' = m.gradedUnits
       /\ calls' = m.calls
       /\ trace' = Append(trace, Step("gradeStrykerResults", ~m.threw))
       /\ res' = IF m.threw THEN <<InternalErrorOutput>>
                            ELSE <<GradedOutput(TestResults(m.calls))>>
  /\ pc' = "outputGrading"
  /\ UNCHANGED <<coreVars, results, configError, fileResults, occurrences,
                 emitted, failed>>

\* The emission at the end of the try block.  main.ts: core.setOutput.
\* part_001: outputGrading(res), which calls core.setOutput and then, when an
\* output file was named, fs.writeFile; a rejected write is thrown to the
\* catch of the try block.
OutputGrading ==
  /\ pc = "outputGrading"
  /\ emitted' = Append(emitted, res[1])
  /\ \E written \in BOOLEAN :
       /\ (impl = "main.ts" \/ ~outputFile) => written
       /\ pc' = IF written THEN "done" ELSE "catch"
  /\ UNCHANGED <<coreVars, gradedUnits, results, configError, calls,
                 fileResults, occurrences, res, failed, trace>>

\* The catch of the try block: the error result is made and emitted the same
\* way; in part_001 a rejected write is thrown on to the last catch, which
\* calls core.setFailed.
CatchAndReport ==
  /\ pc = "catch"
  /\ emitted' = Append(emitted, ErrorOccurredOutput)
  /\ res' = <<ErrorOccurredOutput>>
  /\ \E written \in BOOLEAN :
       /\ (impl = "main.ts" \/ ~outputFile) => written
       /\ failed' = ~written
  /\ pc' = "done"
  /\ UNCHANGED <<coreVars, gradedUnits, results, configError, calls,
                 fileResults, occurrences, trace>>

NextRun ==
  \/ LoadConfig
  \/ RunValidateConfig
  \/ CopySubmissionFile
  \/ AwaitCopies
  \/ CheckFilesFound
  \/ GrepEslintDisable
  \/ GrepTsIgnore
  \/ NpmInstall
  \/ RunESLint
  \/ NpmTest
  \/ RunStryker
  \/ RunGradeStrykerResults
  \/ OutputGrading
  \/ CatchAndReport

SpecRun == InitRun /\ [][NextRun]_vars

\* ------------------------------------------------------------ properties
\* The gradeMutationUnit calls of the last gradeStrykerResults that returned.
Returned == {i \in 1..Len(calls) : ~calls[i].result.threw}

\* validateConfig accepts a config made of this one unit.
Accepted(unit) == validateConfig(<<unit>>) = <<>>

\* The breakpoints of bps whose threshold is at most d.
Reached(bps, d) == {i \in 1..Len(bps) : bps[i].minimumMutantsDetected <= d}

\* The points of the reached breakpoint with the largest threshold, 0 if none.
PointsOfHighestReached(bps, d) ==
  IF Reached(bps, d) = {} THEN 0
  ELSE bps[CHOOSE i \in Reached(bps, d) :
             \A j \in Reached(bps, d) :
               bps[j].minimumMutantsDetected <= bps[i].minimumMutantsDetected
          ].pointsToAward

\* C1: for a unit whose breakPoints pass validateConfig when the call begins,
\* gradeMutationUnit's score is the pointsToAward of the breakpoint with the
\* largest minimumMutantsDetected that is <= the detected count, and 0 when
\* the count is below every threshold.
C1_ScoreIsHighestReached ==
  \A i \in Returned :
    Accepted(calls[i].unit) =>
      calls[i].result.ret.score =
        PointsOfHighestReached(calls[i].unit.breakPoints,
                               calls[i].result.mutantsDetected)

\* A returned call on an accepted unit whose detected count equals the
\* threshold of a breakpoint that has a lower neighbour with other points,
\* and whose score is that breakpoint's points.
C1_Witness ==
  \E i \in Returned :
    LET bps == calls[i].unit.breakPoints IN
    /\ Accepted(calls[i].unit)
    /\ \E k \in 2..Len(bps) :
         /\ bps[k].minimumMutantsDetected = calls[i].result.mutantsDetected
         /\ bps[k].pointsToAward # bps[k - 1].pointsToAward
         /\ calls[i].result.ret.score = bps[k].pointsToAward

\* C2: gradeMutationUnit leaves the unit it is given as it was: after any
\* number of calls schema.gradedUnits holds the breakpoints as loaded, in
\* declared order.
C2_UnitNotModified == gradedUnits = yaml

\* C3: a gradeStrykerResults call on the same schema and report returns the
\* same tests (score, max_score, name, output of every unit) as the call
\* before it.
C3_SameResultEveryCall ==
  (pc = "graded" /\ previous # <<>>) => tests = previous[1]

\* The threshold of the last breakpoint unit i declares (in the YAML).
LastDeclaredThreshold(i) ==
  yaml[i].breakPoints[Len(yaml[i].breakPoints)].minimumMutantsDetected

\* C4: the output of unit i is "Faults detected: <d>/<t>", d the detected
\* count and t the threshold of the unit's last declared breakpoint; the
\* end-to-end scenario gives score 5, max_score 10, "Faults detected: 4/6".
C4_OutputNamesLastDeclared ==
  /\ \A i \in Returned :
       calls[i].result.ret.output =
         FaultsDetected(calls[i].result.mutantsDetected,
                        LastDeclaredThreshold(i))
  /\ (pc = "graded" /\ yaml = <<ScenarioUnit>> /\ results = ScenarioReport) =>
       tests = <<[name |-> "U", score |-> 5, max_score |-> 10,
                  output |-> "Faults detected: 4/6"]>>

\* The score gradeMutationUnit gives the unit's breakpoint table when exactly
\* d mutants are detected: the unit graded on a report of d killed mutants
\* (and one survived) inside its range.
ScoreAt(unit, d) ==
  gradeMutationUnit(impl, Unit(unit.name, unit.breakPoints, <<Loc_1_5>>),
                    KilledReport(d)).ret.score

\* Detected counts from 0 to one above the unit's last threshold.
DetectedCounts(unit) ==
  0..(unit.breakPoints[Len(unit.breakPoints)].minimumMutantsDetected + 1)

PointsNonDecreasing(bps) ==
  \A k \in 2..Len(bps) : bps[k - 1].pointsToAward <= bps[k].pointsToAward

\* C5 as claimed: for every unit validateConfig accepts, d1 <= d2 implies
\* score(d1) <= score(d2).
C5_Monotone ==
  \A i \in Returned :
    Accepted(calls[i].unit) =>
      LET score == [d \in DetectedCounts(calls[i].unit) |->
                      ScoreAt(calls[i].unit, d)]
      IN \A d1, d2 \in DetectedCounts(calls[i].unit) :
           d1 <= d2 => score[d1] <= score[d2]

\* C5 amended: for every unit validateConfig accepts and whose pointsToAward
\* do not decrease in declared order, d1 <= d2 implies
\* score(d1) <= score(d2).
C5_MonotoneWhenPointsAscend ==
  \A i \in Returned :
    (Accepted(calls[i].unit)
       /\ PointsNonDecreasing(calls[i].unit.breakPoints)) =>
      LET score == [d \in DetectedCounts(calls[i].unit) |->
                      ScoreAt(calls[i].unit, d)]
      IN \A d1, d2 \in DetectedCounts(calls[i].unit) :
           d1 <= d2 => score[d1] <= score[d2]

\* A returned call on an accepted unit with at least two breakpoints of
\* non-decreasing points, where a larger count earns strictly more.
C5_Witness ==
  \E i \in Returned :
    /\ Accepted(calls[i].unit)
    /\ Len(calls[i].unit.breakPoints) >= 2
    /\ PointsNonDecreasing(calls[i].unit.breakPoints)
    /\ \E d1, d2 \in DetectedCounts(calls[i].unit) :
         d1 < d2 /\ ScoreAt(calls[i].unit, d1) < ScoreAt(calls[i].unit, d2)
    /\ calls[i].result.ret.score > 0

\* Some breakpoint of the unit has a threshold that is not strictly greater
\* than the one declared before it.
Misordered(unit) ==
  \E k \in 2..Len(unit.breakPoints) :
    unit.breakPoints[k].minimumMutantsDetected
      <= unit.breakPoints[k - 1].minimumMutantsDetected

\* C6: validateConfig fails if and only if some unit has a breakpoint whose
\* threshold is not strictly greater than the previous one, and then names
\* such a unit; the pointsToAward play no part.
C6_RejectsExactlyMisordered ==
  pc # "loaded" =>
    /\ (configError # <<>>) <=> (\E i \in 1..Len(yaml) : Misordered(yaml[i]))
    /\ configError # <<>> =>
         \E i \in 1..Len(yaml) :
           Misordered(yaml[i]) /\ configError = <<yaml[i].name>>

\* A config rejected for a duplicate threshold.
C6_Witness ==
  /\ pc = "rejected"
  /\ \E i \in 1..Len(yaml) :
       /\ configError = <<yaml[i].name>>
       /\ \E k \in 2..Len(yaml[i].breakPoints) :
            yaml[i].breakPoints[k].minimumMutantsDetected
              = yaml[i].breakPoints[k - 1].minimumMutantsDetected

\* C7: a config that validateConfig accepts is graded whole: once
\* gradeStrykerResults has been called it has returned one TestResult per
\* graded unit.
C7_AcceptedConfigIsGraded ==
  (configError = <<>> /\ invocations > 0) =>
    (pc = "graded" /\ Len(tests) = Len(yaml))

\* The positions <<file, mutant>> of a report.
Positions(files) ==
  UNION {{<<f, k>> : k \in 1..Len(files[f].mutants)} : f \in 1..Len(files)}

\* The mutants of the report that C8 counts for the unit.
Counted(unit, files) ==
  LET ranges == MapLocations(unit.locations) IN
  {p \in Positions(files) :
     LET path == files[p[1]].path
         mutant == files[p[1]].mutants[p[2]]
     IN /\ \E r \in 1..Len(ranges) : includes(path, ranges[r].fileName)
        /\ \E r \in 1..Len(ranges) :
             /\ ranges[r].startLine # NaN /\ ranges[r].endLine # NaN
             /\ ranges[r].startLine <= mutant.line
             /\ mutant.line <= ranges[r].endLine
        /\ mutant.status = "Killed"}

KilledAt20 == <<[path |-> SrcFooTs, mutants |-> <<Mutant("Killed", 20)>>]>>

\* C8: the detected count is the number of mutants whose file path contains
\* the fileName of some range of the unit, whose start line is within some
\* range of the unit (bounds inclusive) and whose status is 'Killed'; a
\* mutant at line 20 counts for range 10-20 and not for range 10-19.
C8_DetectedCount ==
  \A i \in Returned :
    /\ calls[i].result.mutantsDetected
         = Cardinality(Counted(calls[i].unit, results))
    /\ (results = KilledAt20 /\ calls[i].unit.locations = <<Loc_10_20>>) =>
         calls[i].result.mutantsDetected = 1
    /\ (results = KilledAt20 /\ calls[i].unit.locations = <<Loc_10_19>>) =>
         calls[i].result.mutantsDetected = 0

\* A killed mutant at line 20 counted for a unit whose only range is 10-20.
C8_Witness ==
  \E i \in Returned :
    /\ results = KilledAt20
    /\ calls[i].unit.locations = <<Loc_10_20>>
    /\ calls[i].result.mutantsDetected = 1

\* The report with the status of the mutant at position p changed to s.
ChangeStatus(files, p, s) ==
  [files EXCEPT ![p[1]].mutants[p[2]].status = s]

KilledAndSurvived ==
  <<[path |-> SrcFooTs,
     mutants |-> <<Mutant("Killed", 5), Mutant("Survived", 5)>>]>>

\* C9: only 'Killed' mutants are detected: giving any non-Killed mutant any
\* other non-Killed status changes neither the detected count nor the score,
\* and one Killed plus one Survived mutant at one qualifying location give a
\* detected count of 1.
C9_OnlyKilledCounts ==
  \A i \in Returned :
    /\ \A p \in Positions(results) :
         results[p[1]].mutants[p[2]].status # "Killed" =>
           \A s \in Statuses \ {"Killed"} :
             LET r == gradeMutationUnit(impl, calls[i].unit,
                                        ChangeStatus(results, p, s))
             IN /\ r.mutantsDetected = calls[i].result.mutantsDetected
                /\ r.ret.score = calls[i].result.ret.score
    /\ (results = KilledAndSurvived /\ calls[i].unit.locations = <<Loc_1_5>>)
         => calls[i].result.mutantsDetected = 1

\* One Killed and one Survived mutant at line 5, graded for range 1-5, with a
\* detected count of 1.
C9_Witness ==
  \E i \in Returned :
    /\ results = KilledAndSurvived
    /\ calls[i].unit.locations = <<Loc_1_5>>
    /\ calls[i].result.mutantsDetected = 1

\* C10: max_score is the largest pointsToAward of the unit's breakpoints,
\* wherever that breakpoint is declared.
C10_MaxScoreIsLargestPoints ==
  \A i \in Returned :
    LET bps == calls[i].unit.breakPoints
        points == {bps[k].pointsToAward : k \in 1..Len(bps)}
    IN /\ calls[i].result.ret.max_score \in points
       /\ \A q \in points : q <= calls[i].result.ret.max_score

\* A returned call whose max_score is larger than the points of the last
\* breakpoint of the unit as loaded.
C10_Witness ==
  \E i \in Returned :
    /\ Len(yaml[i].breakPoints) >= 2
    /\ calls[i].result.ret.max_score
         > yaml[i].breakPoints[Len(yaml[i].breakPoints)].pointsToAward

\* C11: when gradeStrykerResults returns, tests holds one TestResult per
\* graded unit of the config, in declared order: same length, and tests[i]
\* carries the name of gradedUnits[i].
C11_OneTestPerUnitInOrder ==
  pc = "graded" =>
    /\ Len(tests) = Len(yaml)
    /\ \A i \in 1..Len(yaml) : tests[i].name = yaml[i].name

\* A returned gradeStrykerResults on a config of at least two units.
C11_Witness ==
  /\ pc = "graded"
  /\ Len(yaml) >= 2
  /\ yaml[1].name # yaml[2].name
  /\ tests[1].name = yaml[1].name
  /\ tests[2].name = yaml[2].name

\* The permutations of 1..n.
Perms(n) ==
  {f \in [1..n -> 1..n] : \A a, b \in 1..n : f[a] = f[b] => a = b}

\* The tests gradeStrykerResults returns for the given units and the report
\* of the state.
TestsFor(units) ==
  TestResults(MapGradedUnits(impl, units, results, 1, <<>>).calls)

\* C12: the TestResult of a unit does not depend on the other units of the
\* config or on their order (grading the unit alone gives the same result,
\* grading the units permuted gives the tests permuted the same way), and
\* every unit counts every killed mutant that matches its locations, also
\* the mutants that other units count.
C12_UnitsIndependent ==
  pc = "graded" =>
    LET n == Len(calls)
        units == [k \in 1..n |-> calls[k].unit]
    IN /\ \A i \in 1..n : TestsFor(<<units[i]>>) = <<tests[i]>>
       /\ \A f \in Perms(n) :
            TestsFor([k \in 1..n |-> units[f[k]]])
              = [k \in 1..n |-> tests[f[k]]]
       /\ \A i \in 1..n :
            calls[i].result.mutantsDetected
              = Cardinality(Counted(units[i], results))

\* Two units graded in one call that both count the same killed mutant.
C12_Witness ==
  /\ pc = "graded"
  /\ \E i, j \in 1..Len(calls) :
       /\ i # j
       /\ Counted(calls[i].unit, results) \cap Counted(calls[j].unit, results)
            # {}
       /\ calls[i].result.mutantsDetected >= 1
       /\ calls[j].result.mutantsDetected >= 1

\* The decimal numeral of n >= 0, as a string.
DigitChar(d) == CHOOSE c \in Digits : DigitValue(c) = d
RECURSIVE Decimal(_)
Decimal(n) ==
  IF n < 10 THEN <<DigitChar(n)>>
  ELSE Decimal(n \div 10) \o <<DigitChar(n % 10)>>

ABTs == <<"a", "/", "b", ".", "t", "s">>
LocationFileNames == {FooTs, BarTs, ABTs}
LocationLines == 0..20

\* "<file>:<n>" and "<file>:<a>-<b>" with what C13 says they parse to.
WrittenLocations ==
  {[text |-> f \o <<":">> \o Decimal(n),
    fileName |-> f, startLine |-> n, endLine |-> n] :
     f \in LocationFileNames, n \in LocationLines}
  \cup
  {[text |-> f \o <<":">> \o Decimal(a) \o <<"-">> \o Decimal(b),
    fileName |-> f, startLine |-> a, endLine |-> b] :
     f \in LocationFileNames, a \in LocationLines, b \in LocationLines}

ParsedAs(e) ==
  [threw |-> FALSE, fileName |-> e.fileName, startLine |-> e.startLine,
   endLine |-> e.endLine]

\* extractLocationInformation gives every written location its own parts.
WrittenLocationsParse ==
  \A e \in WrittenLocations : extractLocationInformation(e.text) = ParsedAs(e)

\* C13: "<file>:<n>" parses to fileName <file>, startLine = endLine = n and
\* "<file>:<a>-<b>" to fileName <file>, startLine a, endLine b: for the
\* locations of every graded unit, and for every written location of the
\* table ("a/b.ts:10" gives 10..10, "a/b.ts:10-20" gives 10..20).
C13_LocationParsing ==
  /\ \A i \in Returned :
       \A k \in 1..Len(calls[i].unit.locations) :
         \A e \in WrittenLocations :
           calls[i].unit.locations[k] = e.text =>
             calls[i].result.gradedLocations[k] = ParsedAs(e)
  /\ WrittenLocationsParse
  /\ extractLocationInformation(ABTs \o <<":", "1", "0">>)
       = [threw |-> FALSE, fileName |-> ABTs, startLine |-> 10,
          endLine |-> 10]
  /\ extractLocationInformation(ABTs \o <<":", "1", "0", "-", "2", "0">>)
       = [threw |-> FALSE, fileName |-> ABTs, startLine |-> 10,
          endLine |-> 20]

\* A graded unit whose location "foo.ts:10-20" was parsed to foo.ts, 10, 20.
C13_Witness ==
  \E i \in Returned :
    \E k \in 1..Len(calls[i].unit.locations) :
      /\ calls[i].unit.locations[k] = Loc_10_20
      /\ calls[i].result.gradedLocations[k]
           = [threw |-> FALSE, fileName |-> FooTs, startLine |-> 10,
              endLine |-> 20]

\* The number of ':' in a string.
ColonCount(s) == Cardinality({k \in 1..Len(s) : s[k] = ":"})

\* Some location of the unit has more than one ':'.
HasColumnLocation(unit) ==
  \E k \in 1..Len(unit.locations) : ColonCount(unit.locations[k]) > 1

\* C14: a location with more than one ':' makes extractLocationInformation
\* fail, the gradeMutationUnit call of its unit fails, and a
\* gradeStrykerResults call on a config with such a unit fails as a whole.
C14_ColumnLocationFails ==
  /\ extractLocationInformation(ABTs \o <<":", "1", "0", ":", "2">>).threw
  /\ \A i \in 1..Len(calls) :
       HasColumnLocation(calls[i].unit) => calls[i].result.threw
  /\ (invocations > 0 /\ \E i \in 1..Len(yaml) : HasColumnLocation(yaml[i]))
       => pc = "threw"

\* gradeStrykerResults failed at the second unit, which has a location with
\* two ':', after the first unit had been graded.
C14_Witness ==
  /\ pc = "threw"
  /\ Len(calls) = 2
  /\ ~calls[1].result.threw
  /\ HasColumnLocation(calls[2].unit)
  /\ calls[2].result.threw

\* Every location of the unit has exactly one ':'.
LocationsWellFormed(unit) ==
  \A k \in 1..Len(unit.locations) : ColonCount(unit.locations[k]) = 1

\* The mutants of the report, of any status, in a file and at a line that
\* the unit's ranges name.
Qualifying(unit, files) ==
  LET ranges == MapLocations(unit.locations) IN
  {p \in Positions(files) :
     /\ \E r \in 1..Len(ranges) :
          includes(files[p[1]].path, ranges[r].fileName)
     /\ \E r \in 1..Len(ranges) :
          /\ ranges[r].startLine # NaN /\ ranges[r].endLine # NaN
          /\ ranges[r].startLine <= files[p[1]].mutants[p[2]].line
          /\ files[p[1]].mutants[p[2]].line <= ranges[r].endLine}

\* C15: for a unit that validateConfig accepts and that has no qualifying
\* mutant in the report, gradeMutationUnit returns, with detected count 0
\* and score 0.
C15_NoQualifyingMutantScoresZero ==
  \A i \in 1..Len(calls) :
    (/\ Accepted(calls[i].unit)
     /\ LocationsWellFormed(calls[i].unit)
     /\ Qualifying(calls[i].unit, results) = {}) =>
      /\ ~calls[i].result.threw
      /\ calls[i].result.mutantsDetected = 0
      /\ calls[i].result.ret.score = 0

\* The killed mutants for which one range of the unit both names the file
\* and contains the start line.
CountedByOneRange(unit, files) ==
  LET ranges == MapLocations(unit.locations) IN
  {p \in Positions(files) :
     /\ files[p[1]].mutants[p[2]].status = "Killed"
     /\ \E r \in 1..Len(ranges) :
          /\ includes(files[p[1]].path, ranges[r].fileName)
          /\ ranges[r].startLine # NaN /\ ranges[r].endLine # NaN
          /\ ranges[r].startLine <= files[p[1]].mutants[p[2]].line
          /\ files[p[1]].mutants[p[2]].line <= ranges[r].endLine}

\* C17: a mutant is counted for a unit only if a single range of the unit
\* names its file and contains its start line: the detected count is the
\* number of killed mutants with such a range.
C17_OneRangeNamesFileAndLine ==
  \A i \in Returned :
    calls[i].result.mutantsDetected
      = Cardinality(CountedByOneRange(calls[i].unit, results))


\* ------------------------------------------------- properties of run()
StepsNamed(names) == {i \in 1..Len(trace) : trace[i].step \in names}

GradingWork ==
  {"cp", "anyFilesFound", "grep eslint-disable", "grep ts-ignore",
   "npm install", "eslint", "npm test", "stryker", "gradeStrykerResults"}

HasTests(output) == "tests" \in DOMAIN output

\* C16: in run(), validateConfig is called once, before any submission file
\* is copied, any command is executed and any unit is graded; when it fails
\* none of those steps happens and no test-results output is emitted.
C16_ValidateConfigFirst ==
  /\ Cardinality(StepsNamed({"validateConfig"})) <= 1
  /\ trace # <<>> => trace[1].step = "validateConfig"
  /\ pc \notin {"run", "validateConfig", "done"} =>
       Cardinality(StepsNamed({"validateConfig"})) = 1
  /\ calls # <<>> => StepsNamed({"validateConfig"}) # {}
  /\ configError # <<>> =>
       /\ StepsNamed(GradingWork) = {}
       /\ calls = <<>>
       /\ emitted = <<>>
       /\ pc = "done"
       /\ failed

C16_Witness ==
  /\ pc = "done"
  /\ configError # <<>>
  /\ trace = <<Step("validateConfig", FALSE)>>

\* The steps of the pipeline, in the order the claim gives them.
Pipeline ==
  <<"grep eslint-disable", "grep ts-ignore", "npm install", "eslint",
    "npm test", "stryker", "gradeStrykerResults">>

Rank(name) == CHOOSE k \in 1..Len(Pipeline) : Pipeline[k] = name

PipelineSteps == StepsNamed({Pipeline[k] : k \in 1..Len(Pipeline)})

NoFileCopied == \A i \in 1..Len(fileResults) : fileResults[i] = "false"

StepBeforeStrykerFailed ==
  \E i \in PipelineSteps :
    /\ Rank(trace[i].step) < Rank("stryker")
    /\ ~trace[i].ok

EveryStepSucceeded ==
  /\ \A i \in PipelineSteps : trace[i].ok
  /\ \A k \in 3..Len(Pipeline) : \E i \in PipelineSteps : trace[i].step = Pipeline[k]

\* C18: run() is a gated pipeline: the steps execute in the order annotation
\* checks, npm install, eslint, npm test, stryker, grading, each only after
\* every earlier step succeeded; when no submission file could be copied or a
\* step before stryker fails, stryker is never run and what is emitted has
\* score 0, is visible and has no tests; tests are emitted only when every
\* step succeeded.
C18_GatedPipeline ==
  /\ \A i, j \in PipelineSteps :
       i < j => /\ Rank(trace[i].step) < Rank(trace[j].step)
                /\ trace[i].ok
  /\ (pc \notin {"run", "validateConfig", "copy"}
      /\ (NoFileCopied \/ StepBeforeStrykerFailed)) =>
       /\ StepsNamed({"stryker"}) = {}
       /\ \A e \in 1..Len(emitted) :
            /\ ~HasTests(emitted[e])
            /\ emitted[e].score = 0
            /\ emitted[e].stdout_visibility = "visible"
       /\ pc = "done" /\ ~failed => emitted # <<>>
  /\ \A e \in 1..Len(emitted) : HasTests(emitted[e]) => EveryStepSucceeded

Validated == trace # <<>> /\ trace[1] = Step("validateConfig", TRUE)

\* C19: in every execution of run() in which the config loads and validates,
\* the test-results output is set exactly once, and a graded result (one with
\* tests) is never followed by an emission of the score-0 failure result.
C19_EmittedExactlyOnce ==
  /\ Len(emitted) <= 1
  /\ (Validated /\ pc = "done") => Len(emitted) = 1
  /\ \A i, j \in 1..Len(emitted) :
       (i < j /\ HasTests(emitted[i])) => HasTests(emitted[j])

EslintDisableCheckFailed ==
  \E i \in 1..Len(trace) : trace[i] = Step("grep eslint-disable", FALSE)

\* C20: the eslint-disable check fails the submission only when grep found
\* more occurrences than expectedESlintIgnore; a submission with no
\* occurrence is never rejected by it.
C20_EslintDisableOnlyAboveTolerance ==
  EslintDisableCheckFailed =>
    /\ occurrences.eslintDisable[1] > tolerances.expectedESlintIgnore
    /\ occurrences.eslintDisable[1] # 0

====
